---------------------------- MODULE Spec2Model ----------------------------
(***************************************************************************)
(* A model of mypersonalbank: the App component (src/unnamed/part_000),    *)
(* its ledger held in React state, the two localStorage keys, the session  *)
(* gate and the seven balance operations; and its service worker           *)
(* (src/public/sw.js) with the caches it keeps.                            *)
(*                                                                         *)
(* Representation.                                                         *)
(*  - A JavaScript number is an integer count of thousandths (1.00 is      *)
(*    1000), so that Math.round(x * 100) / 100 is a real operation.        *)
(*  - A text is a sequence of pieces (strings); an amount text is a        *)
(*    sequence of single characters.                                       *)
(*  - null is Null (the empty sequence) and a present value v is <<v>>.    *)
(*  - A localStorage item is a record: absent, the JSON text of a value,   *)
(*    or a text that JSON.parse rejects.                                   *)
(*  - React runs an event handler to its end, applies the queued state     *)
(*    updaters in order, renders, and runs the effects of that render      *)
(*    before the next event: a handler with its updaters and the save      *)
(*    effect is one action.  The values a handler reads from its closure   *)
(*    are those of the state at its start.                                 *)
(*  - The input fields (amountInput, descriptionInput, username,           *)
(*    password) are read by one handler each and by nothing else: the text *)
(*    typed is the handler's input.                                        *)
(*  - todayISO() is one fixed day; makeId() is a fresh number.             *)
(*  - Two browser tabs run the component on the same storage.  The         *)
(*    variables of the component are those of the tab in focus; the state  *)
(*    of the other tab is kept in otherTab and the two change places when  *)
(*    the user switches tabs.  One tab alone is a behaviour without a      *)
(*    switch.                                                              *)
(***************************************************************************)
EXTENDS Integers, Sequences, FiniteSets, TLC

VARIABLES
    user,               \* useState<User | null>                 (line 53)
    error,              \* login error                           (line 56)
    data,               \* useState<BankingData>                 (line 86)
    isInitialLoad,      \* TRUE until the mount effects have run (line 87)
    modal,              \* the open dialog, or Null              (line 141)
    modalError,         \* the dialog's inline error             (line 142)
    transferDirection,  \*                                       (line 148)
    sessionItem,        \* localStorage[SESSION_KEY]
    dataItem,           \* localStorage[DATA_KEY]
    nextId,             \* the next fresh transaction id (makeId)
    baseTx,             \* history: the list as the first load found it, or as the last clear left it
    baseId,             \* history: nextId at that moment
    restored,           \* history: the user in place was restored by the session effect
    baseItem,           \* history: localStorage[DATA_KEY] as the first load found it, or as the last clear left it
    lastWriter,         \* history: the tab that wrote localStorage[DATA_KEY] last
    focus,              \* the browser tab the variables above belong to
    otherTab,           \* the component state of the other browser tab
    download,           \* the file the last export has handed to the browser, or Null
    worker,             \* the service worker's lifecycle state               (sw.js)
    caches,             \* CacheStorage: cache name -> (url -> response or Null)
    pendingPuts,        \* the cache.put calls of line 33 not yet carried out
    answer,             \* how the last request was answered, or Null
    server,             \* the content the network serves at present
    rawText,            \* the text handed to parseAmount on its own
    result              \* what parseAmount made of it

\* the state of the component in one tab, with its history
tabState == <<user, error, data, isInitialLoad, modal, modalError, transferDirection,
              baseTx, baseId, restored>>

\* what no handler or effect of the component touches
outside == <<focus, otherTab, download, worker, caches, pendingPuts, answer, server,
             rawText, result>>

\* the service worker and its caches
workerVars == <<worker, caches, pendingPuts, answer, server>>

\* the parser taken by itself
parserVars == <<rawText, result>>

\* the page: the component in its tabs and the two storage keys
pageVars == <<tabState, sessionItem, dataItem, nextId, baseItem, lastWriter, focus,
              otherTab, download>>

vars == <<pageVars, workerVars, parserVars>>

-----------------------------------------------------------------------------
(* Bounds of the model *)

\* accepted (transaction-producing) operations in one behaviour
MaxOps == 2

\* slice(0, 25) in addTransaction
HistoryCap == 25

\* the longest amount text, when parseAmount is taken by itself
MaxText == 5

Null == <<>>
Some(v) == <<v>>

-----------------------------------------------------------------------------
(* Texts and numbers *)

Digits == <<"0", "1", "2", "3", "4", "5", "6", "7", "8", "9">>

IsDigit(c) == \E i \in 1..10 : Digits[i] = c

DigitVal(c) == (CHOOSE i \in 1..10 : Digits[i] = c) - 1

IsSpace(c) == c = " "

\* the longest prefix of s made of digits
RECURSIVE DigitPrefix(_)
DigitPrefix(s) ==
    IF s = <<>> \/ ~IsDigit(Head(s)) THEN <<>>
    ELSE <<Head(s)>> \o DigitPrefix(Tail(s))

\* the value of a sequence of digits
RECURSIVE DigitsValue(_)
DigitsValue(s) ==
    IF s = <<>> THEN 0
    ELSE 10 * DigitsValue(SubSeq(s, 1, Len(s) - 1)) + DigitVal(s[Len(s)])

\* String.prototype.trim
RECURSIVE TrimLeft(_)
TrimLeft(s) == IF s # <<>> /\ IsSpace(Head(s)) THEN TrimLeft(Tail(s)) ELSE s

RECURSIVE TrimRight(_)
TrimRight(s) ==
    IF s # <<>> /\ IsSpace(s[Len(s)]) THEN TrimRight(SubSeq(s, 1, Len(s) - 1)) ELSE s

Trim(s) == TrimRight(TrimLeft(s))

\* raw.replace(/,/g, '')
RemoveCommas(s) == SelectSeq(s, LAMBDA c : c # ",")

\* Number.parseFloat on a trimmed text without exponent: an optional sign, digits,
\* an optional point and digits; what follows the longest such prefix is ignored.
\* The result is NaN, or the exact decimal (-1)^neg * num / 10^k.
NaN == [nan |-> TRUE, neg |-> FALSE, num |-> 0, k |-> 0]

parseFloat(s) ==
    LET signed == s # <<>> /\ Head(s) \in {"+", "-"}
        neg    == signed /\ Head(s) = "-"
        body   == IF signed THEN Tail(s) ELSE s
        ip     == DigitPrefix(body)
        rest   == SubSeq(body, Len(ip) + 1, Len(body))
        fp     == IF rest # <<>> /\ Head(rest) = "." THEN DigitPrefix(Tail(rest)) ELSE <<>>
    IN  IF Len(ip) + Len(fp) = 0 THEN NaN
        ELSE [nan |-> FALSE, neg |-> neg, num |-> DigitsValue(ip \o fp), k |-> Len(fp)]

\* Math.round(x): the nearest integer, a half going up; here of p / q with q > 0
MathRound(p, q) == (2 * p + q) \div (2 * q)

\* Math.round(x * 100) / 100 for a number x held in thousandths
Round100(x) == MathRound(x * 100, 1000) * 10

\* a faulty parseAmount: zero is let through (n < 0 for n <= 0)
parseAmount_ZeroAllowed(raw) ==
    LET cleaned == Trim(RemoveCommas(raw))
        n       == parseFloat(cleaned)
    IN  IF n.nan \/ (n.neg /\ n.num # 0) THEN Null
        ELSE Some(MathRound(n.num * 100, 10 ^ n.k) * 10)

\* a faulty parse: the value is not rounded to cents
parseAmount_Unrounded(raw) ==
    LET cleaned == Trim(RemoveCommas(raw))
        n       == parseFloat(cleaned)
    IN  IF n.nan \/ n.neg \/ n.num = 0 THEN Null
        ELSE Some((n.num * 1000) \div (10 ^ n.k))

\* parseAmount: null, or the amount in thousandths
parseAmount(raw) ==
    LET cleaned == Trim(RemoveCommas(raw))
        n       == parseFloat(cleaned)
    IN  IF n.nan \/ n.neg \/ n.num = 0 THEN Null
        ELSE Some(MathRound(n.num * 100, 10 ^ n.k) * 10)

-----------------------------------------------------------------------------
(* JSON and localStorage *)

JNum(n)  == [t |-> "number", n |-> n]
JStr(s)  == [t |-> "string", s |-> s]
JArr(a)  == [t |-> "array", items |-> a]
JNull    == [t |-> "null"]
\* a member the parsed value does not have (parsed?.member is undefined)
JUndefined == [t |-> "undefined"]

\* localStorage.getItem gives null for Absent; JSON.parse throws on Garbage
Absent   == [kind |-> "absent"]
Garbage  == [kind |-> "text"]
JsonText(v) == [kind |-> "json", value |-> v]

\* a faulty serialisation: the goal is written as null
StringifyData_GoalLost(d) ==
    JsonText([checkingBalance |-> JNum(d.checkingBalance),
              savingsBalance  |-> JNum(d.savingsBalance),
              savingsGoal     |-> JNull,
              transactions    |-> JArr(d.transactions)])

\* JSON.stringify(data)
StringifyData(d) ==
    JsonText([checkingBalance |-> JNum(d.checkingBalance),
              savingsBalance  |-> JNum(d.savingsBalance),
              savingsGoal     |-> IF d.savingsGoal = Null THEN JNull ELSE JNum(d.savingsGoal[1]),
              transactions    |-> JArr(d.transactions)])

\* JSON.stringify(sessionUser)
StringifyUser(u) == JsonText([name |-> JStr(u.name)])

\* the truthiness of a parsed JSON value
Truthy(j) ==
    \/ j.t = "string" /\ j.s # <<>>
    \/ j.t = "number" /\ j.n # 0
    \/ j.t = "array"

-----------------------------------------------------------------------------
(* The ledger *)

emptyData ==
    [checkingBalance |-> 0, savingsBalance |-> 0, savingsGoal |-> Null, transactions |-> <<>>]

todayISO == <<"today">>

\* ids below FirstId belong to the transactions of earlier sessions
FirstId == HistoryCap + 1

\* A ledger an earlier session has left in storage: n deposits of 1.00, newest first.
OldTransaction(id) ==
    [id |-> id, date |-> <<"earlier">>, description |-> <<"Add Money to Savings">>,
     amount |-> 1000, category |-> "Income", scope |-> "savings"]

OldLedger(n) ==
    [checkingBalance |-> 2000, savingsBalance |-> 1000, savingsGoal |-> Null,
     transactions |-> [i \in 1..n |-> OldTransaction(n + 1 - i)]]

\* a record of the wrong shape: the balances are strings
BadShape ==
    JsonText([checkingBalance |-> JStr(<<"2">>), savingsBalance |-> JStr(<<"1">>),
              savingsGoal |-> JNull, transactions |-> JArr(<<>>)])

\* what a first visit, or an earlier session of the program, has left under DATA_KEY
InitDataItems ==
    {Absent, StringifyData(OldLedger(HistoryCap - 1))}

AdminUser == [name |-> <<"Admin">>]

\* a session an earlier visit has left is reached by signing in and loading the page again
InitSessionItems == {Absent, Garbage}

\* the component as its useState calls construct it, in a tab that has done nothing
Constructed ==
    [user |-> Null, error |-> Null, data |-> emptyData, isInitialLoad |-> TRUE,
     modal |-> Null, modalError |-> Null, transferDirection |-> "checkingToSavings",
     baseTx |-> <<>>, baseId |-> FirstId, restored |-> FALSE]

\* the tab in focus has state t
TabIs(t) ==
    /\ user = t.user
    /\ error = t.error
    /\ data = t.data
    /\ isInitialLoad = t.isInitialLoad
    /\ modal = t.modal
    /\ modalError = t.modalError
    /\ transferDirection = t.transferDirection
    /\ baseTx = t.baseTx
    /\ baseId = t.baseId
    /\ restored = t.restored

\* CacheStorage with no cache in it
NoCaches == [k \in {} |-> Null]

\* no service worker registered yet, no cache, nothing asked
WorkerInit ==
    /\ worker = "parsed"
    /\ caches = NoCaches
    /\ pendingPuts = {}
    /\ answer = Null
    /\ server = "v1"

\* the amount field is empty and parseAmount has not been called on it
NotParsed == [called |-> FALSE, value |-> Null]

ParserInit ==
    /\ rawText = <<>>
    /\ result = NotParsed

\* both tabs constructed, tab A in focus, over the storage items given
PageInit(sessionItems, dataItems) ==
    /\ TabIs(Constructed)
    /\ sessionItem \in sessionItems
    /\ dataItem \in dataItems
    /\ nextId = FirstId
    /\ baseItem = dataItem
    /\ lastWriter = "none"
    /\ focus = "A"
    /\ otherTab = Constructed
    /\ download = Null

InitOver(sessionItems, dataItems) ==
    /\ PageInit(sessionItems, dataItems)
    /\ WorkerInit
    /\ ParserInit

Init == InitOver(InitSessionItems, InitDataItems)

-----------------------------------------------------------------------------
(* Mount: the effects of the first render *)

\* a faulty restore: the stored session is not taken up
SessionEffect_NoRestore(item) ==
    IF item.kind = "text" THEN [user |-> Null, item |-> Absent]
    ELSE [user |-> Null, item |-> item]

\* the session restore effect: the user and the item it leaves
SessionEffect(item) ==
    IF item.kind = "absent" THEN [user |-> Null, item |-> item]
    ELSE IF item.kind = "text" THEN [user |-> Null, item |-> Absent]
    ELSE IF Truthy(item.value.name)
         THEN [user |-> Some([name |-> item.value.name.s]), item |-> item]
         ELSE [user |-> Null, item |-> item]

\* a faulty load: the savings balance is read from the checking member
LoadEffect_CopyPaste(item) ==
    IF item.kind = "absent" THEN [data |-> emptyData, item |-> item]
    ELSE IF item.kind = "text" THEN [data |-> emptyData, item |-> Absent]
    ELSE LET parsed == item.value IN
         IF /\ parsed.checkingBalance.t = "number"
            /\ parsed.savingsBalance.t = "number"
            /\ parsed.transactions.t = "array"
         THEN [data |-> [checkingBalance |-> parsed.checkingBalance.n,
                         savingsBalance  |-> parsed.checkingBalance.n,
                         savingsGoal     |-> IF parsed.savingsGoal.t = "number"
                                             THEN Some(parsed.savingsGoal.n) ELSE Null,
                         transactions    |-> parsed.transactions.items],
               item |-> item]
         ELSE [data |-> emptyData, item |-> item]

\* the load effect: the ledger and the item it leaves
LoadEffect(item) ==
    IF item.kind = "absent" THEN [data |-> emptyData, item |-> item]
    ELSE IF item.kind = "text" THEN [data |-> emptyData, item |-> Absent]
    ELSE LET parsed == item.value IN
         IF /\ parsed.checkingBalance.t = "number"
            /\ parsed.savingsBalance.t = "number"
            /\ parsed.transactions.t = "array"
         THEN [data |-> [checkingBalance |-> parsed.checkingBalance.n,
                         savingsBalance  |-> parsed.savingsBalance.n,
                         savingsGoal     |-> IF parsed.savingsGoal.t = "number"
                                             THEN Some(parsed.savingsGoal.n) ELSE Null,
                         transactions    |-> parsed.transactions.items],
               item |-> item]
         ELSE [data |-> emptyData, item |-> item]

\* a faulty save effect: the guard is turned round
SaveEffect_WhileLoading(initial, d, item) == IF initial THEN StringifyData(d) ELSE item

\* the save effect, run after a render in which data or isInitialLoad changed
SaveEffect(initial, d, item) == IF initial THEN item ELSE StringifyData(d)

Mount ==
    /\ isInitialLoad
    /\ LET s == SessionEffect(sessionItem)
           l == LoadEffect(dataItem)
       IN  /\ user' = s.user
           /\ sessionItem' = s.item
           /\ data' = l.data
           /\ isInitialLoad' = FALSE
           /\ dataItem' = SaveEffect(FALSE, l.data, SaveEffect(TRUE, emptyData, l.item))
           \* a later load finds the list the operations since then have left
           /\ baseTx' = (IF nextId = baseId THEN l.data.transactions ELSE baseTx)
           /\ restored' = (s.user # Null)
           /\ lastWriter' = focus
    /\ UNCHANGED <<error, modal, modalError, transferDirection, nextId, baseId, baseItem, outside>>

\* The page is loaded again: the component state is constructed anew, storage stays.
Reload ==
    /\ ~isInitialLoad
    /\ user' = Null
    /\ error' = Null
    /\ data' = emptyData
    /\ isInitialLoad' = TRUE
    /\ modal' = Null
    /\ modalError' = Null
    /\ transferDirection' = "checkingToSavings"
    /\ restored' = FALSE
    /\ UNCHANGED <<sessionItem, dataItem, nextId, baseTx, baseId, baseItem, lastWriter, outside>>

-----------------------------------------------------------------------------
(* Session gate *)

\* the pairs typed into the sign-in form
LoginInputs ==
    { [username |-> <<>>,                   password |-> <<"admin123">>],
      [username |-> <<" ">>,                password |-> <<"admin123">>],
      [username |-> <<"Admin">>,            password |-> <<>>],
      [username |-> <<"Admin">>,            password |-> <<"admin123">>],
      [username |-> <<" ", "Admin", " ">>,  password |-> <<"admin123">>],
      [username |-> <<"admin">>,            password |-> <<"admin123">>],
      [username |-> <<"Admin">>,            password |-> <<"admin123", " ">>] }

MsgEnter   == "Please enter username and password."
MsgInvalid == "Invalid login. Use Admin / admin123."

\* a faulty comparison: one matching field is enough
CredentialsMatch_Either(u, p) == u = <<"Admin">> \/ p = <<"admin123">>

\* the negation of the test of line 353
CredentialsMatch(u, p) == u = <<"Admin">> /\ p = <<"admin123">>

onLogin(username, password) ==
    /\ ~isInitialLoad
    /\ user = Null
    /\ LET u == Trim(username)
           p == password
       IN  IF u = <<>> \/ p = <<>>
           THEN /\ error' = Some(MsgEnter)
                /\ UNCHANGED <<user, sessionItem>>
           ELSE IF ~CredentialsMatch(u, p)
           THEN /\ error' = Some(MsgInvalid)
                /\ UNCHANGED <<user, sessionItem>>
           ELSE /\ error' = Null
                /\ sessionItem' = StringifyUser(AdminUser)
                /\ user' = Some(AdminUser)
    /\ UNCHANGED <<data, isInitialLoad, modal, modalError, transferDirection,
                   dataItem, nextId, baseTx, baseId, restored, baseItem, lastWriter, outside>>

\* a faulty logout: the ledger is taken away with the session
onLogout_Wipes ==
    /\ ~isInitialLoad
    /\ user # Null
    /\ sessionItem' = Absent
    /\ user' = Null
    /\ restored' = FALSE
    /\ data' = emptyData
    /\ dataItem' = SaveEffect(isInitialLoad, emptyData, dataItem)
    /\ lastWriter' = focus
    /\ UNCHANGED <<error, isInitialLoad, modal, modalError, transferDirection,
                   nextId, baseTx, baseId, baseItem, outside>>

onLogout ==
    /\ ~isInitialLoad
    /\ user # Null
    /\ sessionItem' = Absent
    /\ user' = Null
    /\ restored' = FALSE
    /\ UNCHANGED <<error, data, isInitialLoad, modal, modalError, transferDirection,
                   dataItem, nextId, baseTx, baseId, baseItem, lastWriter, outside>>

-----------------------------------------------------------------------------
(* Dialogs *)

ModalTypes ==
    {"transfer", "payBills", "addMoney", "setGoal", "settings", "editChecking", "editSavings"}

\* the dashboard is rendered: mounted and signed in
Unlocked == ~isInitialLoad /\ user # Null

openModal(type) ==
    /\ Unlocked
    /\ modal = Null
    /\ modal' = Some(type)
    /\ modalError' = Null
    /\ transferDirection' = "checkingToSavings"
    /\ UNCHANGED <<user, error, data, isInitialLoad, sessionItem, dataItem,
                   nextId, baseTx, baseId, restored, baseItem, lastWriter, outside>>

closeModal ==
    /\ Unlocked
    /\ modal # Null
    /\ modal' = Null
    /\ modalError' = Null
    /\ UNCHANGED <<user, error, data, isInitialLoad, transferDirection, sessionItem,
                   dataItem, nextId, baseTx, baseId, restored, baseItem, lastWriter, outside>>

setTransferDirection(dir) ==
    /\ Unlocked
    /\ modal = Some("transfer")
    /\ transferDirection' = dir
    /\ UNCHANGED <<user, error, data, isInitialLoad, modal, modalError, sessionItem,
                   dataItem, nextId, baseTx, baseId, restored, baseItem, lastWriter, outside>>

-----------------------------------------------------------------------------
(* Transaction recorder *)

Min(a, b) == IF a < b THEN a ELSE b

\* arr.slice(0, n)
Slice0(arr, n) == SubSeq(arr, 1, Min(n, Len(arr)))

\* a faulty recorder: the list is cut one entry too late
addTransaction_CutLate(prev, id, description, amount, category, scope) ==
    LET full == [id |-> id, date |-> todayISO, description |-> description,
                 amount |-> amount, category |-> category, scope |-> scope]
    IN  [prev EXCEPT !.transactions = Slice0(<<full>> \o prev.transactions, HistoryCap + 1)]

\* a faulty recorder: the new entry is put behind the others
addTransaction_AtEnd(prev, id, description, amount, category, scope) ==
    LET full == [id |-> id, date |-> todayISO, description |-> description,
                 amount |-> amount, category |-> category, scope |-> scope]
    IN  [prev EXCEPT !.transactions = Slice0(prev.transactions \o <<full>>, HistoryCap)]

\* the updater addTransaction queues, applied to prev
addTransaction(prev, id, description, amount, category, scope) ==
    LET full == [id |-> id, date |-> todayISO, description |-> description,
                 amount |-> amount, category |-> category, scope |-> scope]
    IN  [prev EXCEPT !.transactions = Slice0(<<full>> \o prev.transactions, HistoryCap)]

-----------------------------------------------------------------------------
(* Balance operations *)

\* the texts typed into the amount field
AmountInputs ==
    { <<>>, <<"a", "b", "c">>, <<"0">>, <<"-", "1">>,
      <<"1">>, <<" ", "1", ",", "0", "0", "0", ".", "0", "0", "4">> }

\* the texts typed into the bill description field
DescriptionInputs == { <<>>, <<" ">>, <<" ", "Electricity", " ">> }

MsgAmount   == "Enter a valid amount."
MsgGoal     == "Enter a valid goal amount."
MsgBalance  == "Enter a valid balance."
MsgBill     == "Enter a bill name/description."
MsgChecking == "Not enough funds in Checking."
MsgSavings  == "Not enough funds in Savings."

\* a handler that returns after setModalError(msg)
Reject(msg) ==
    /\ modalError' = Some(msg)
    /\ UNCHANGED <<user, error, data, isInitialLoad, modal, transferDirection,
                   sessionItem, dataItem, nextId, baseTx, baseId, restored, baseItem, lastWriter, outside>>

\* a faulty commit: the ledger changes in memory and the record is not written
Commit_Unsaved(d) ==
    /\ data' = d
    /\ nextId' = nextId + 1
    /\ modal' = Null
    /\ modalError' = Null
    /\ lastWriter' = (IF isInitialLoad THEN lastWriter ELSE focus)
    /\ UNCHANGED <<user, error, isInitialLoad, transferDirection, sessionItem, dataItem,
                   baseTx, baseId, restored, baseItem, outside>>

\* a handler that has queued updaters giving d, used one id and ends with closeModal()
Commit(d) ==
    /\ data' = d
    /\ dataItem' = SaveEffect(isInitialLoad, d, dataItem)
    /\ nextId' = nextId + 1
    /\ modal' = Null
    /\ modalError' = Null
    /\ lastWriter' = (IF isInitialLoad THEN lastWriter ELSE focus)
    /\ UNCHANGED <<user, error, isInitialLoad, transferDirection, sessionItem,
                   baseTx, baseId, restored, baseItem, outside>>

\* the dialog of a handler is open and the model has operations left
CanConfirm(type) ==
    /\ Unlocked
    /\ modal = Some(type)
    /\ nextId < FirstId + MaxOps

\* a faulty funds test: funds are never found short
InsufficientFunds_Never(amount, balance) == FALSE

\* a faulty funds test: the comparison is turned round
InsufficientFunds_Reversed(amount, balance) == amount < balance

\* the funds test of lines 208, 219 and 246
InsufficientFunds(amount, balance) == amount > balance

\* a faulty transfer: the credit to savings is lost
TransferToSavings_NoCredit(prev, amount) ==
    [prev EXCEPT !.checkingBalance = Round100(prev.checkingBalance - amount)]

\* the updaters of lines 212-216 and 223-227
TransferToSavings(prev, amount) ==
    [prev EXCEPT !.checkingBalance = Round100(prev.checkingBalance - amount),
                 !.savingsBalance  = Round100(prev.savingsBalance + amount)]

TransferToChecking(prev, amount) ==
    [prev EXCEPT !.savingsBalance  = Round100(prev.savingsBalance - amount),
                 !.checkingBalance = Round100(prev.checkingBalance + amount)]

onConfirmTransfer(amountInput) ==
    /\ CanConfirm("transfer")
    /\ LET amount == parseAmount(amountInput) IN
       IF amount = Null THEN Reject(MsgAmount)
       ELSE IF transferDirection = "checkingToSavings"
       THEN IF InsufficientFunds(amount[1], data.checkingBalance) THEN Reject(MsgChecking)
            ELSE Commit(addTransaction(TransferToSavings(data, amount[1]), nextId,
                                       <<"Transfer to Savings">>, -amount[1],
                                       "Transfer", "both"))
       ELSE IF InsufficientFunds(amount[1], data.savingsBalance) THEN Reject(MsgSavings)
            ELSE Commit(addTransaction(TransferToChecking(data, amount[1]), nextId,
                                       <<"Transfer to Checking">>, amount[1],
                                       "Transfer", "both"))

\* a faulty bill payment: savings is debited
PayBill_FromSavings(prev, amount) ==
    [prev EXCEPT !.savingsBalance = Round100(prev.savingsBalance - amount)]

\* the updater of lines 251-254
PayBill(prev, amount) ==
    [prev EXCEPT !.checkingBalance = Round100(prev.checkingBalance - amount)]

onConfirmPayBills(amountInput, descriptionInput) ==
    /\ CanConfirm("payBills")
    /\ LET amount == parseAmount(amountInput)
           desc   == Trim(descriptionInput)
       IN  IF desc = <<>> THEN Reject(MsgBill)
           ELSE IF amount = Null THEN Reject(MsgAmount)
           ELSE IF InsufficientFunds(amount[1], data.checkingBalance) THEN Reject(MsgChecking)
           ELSE Commit(addTransaction(PayBill(data, amount[1]), nextId,
                                      <<"Bill Payment: ">> \o desc, -amount[1],
                                      "Bills", "checking"))

\* a faulty deposit: the amount goes to checking
AddMoney_ToChecking(prev, amount) ==
    [prev EXCEPT !.checkingBalance = Round100(prev.checkingBalance + amount)]

\* the updater of lines 267-270
AddMoney(prev, amount) ==
    [prev EXCEPT !.savingsBalance = Round100(prev.savingsBalance + amount)]

onConfirmAddMoney(amountInput) ==
    /\ CanConfirm("addMoney")
    /\ LET amount == parseAmount(amountInput) IN
       IF amount = Null THEN Reject(MsgAmount)
       ELSE Commit(addTransaction(AddMoney(data, amount[1]), nextId,
                                  <<"Add Money to Savings">>, amount[1],
                                  "Income", "savings"))

\* a faulty goal update: the goal is also taken as the savings balance
SetGoal_AndBalance(prev, amount) ==
    [prev EXCEPT !.savingsGoal = Some(amount), !.savingsBalance = amount]

\* the updater of line 282
SetGoal(prev, amount) == [prev EXCEPT !.savingsGoal = Some(amount)]

onConfirmSetGoal(amountInput) ==
    /\ CanConfirm("setGoal")
    /\ LET amount == parseAmount(amountInput) IN
       IF amount = Null THEN Reject(MsgGoal)
       ELSE Commit(addTransaction(SetGoal(data, amount[1]), nextId,
                                  <<"Set savings goal">>, 0, "Goal", "savings"))

\* a faulty diff: old minus new
EditDiff_Reversed(amount, balance) == balance - amount

\* diff of lines 294 and 312: the balance is the one of the render the handler closes over
EditDiff(amount, balance) == amount - balance

\* the updaters of lines 301 and 319
EditChecking(prev, amount) == [prev EXCEPT !.checkingBalance = amount]

EditSavings(prev, amount) == [prev EXCEPT !.savingsBalance = amount]

onConfirmEditChecking(amountInput) ==
    /\ CanConfirm("editChecking")
    /\ LET amount == parseAmount(amountInput) IN
       IF amount = Null THEN Reject(MsgBalance)
       ELSE Commit(EditChecking(
                addTransaction(data, nextId, <<"Balance correction">>,
                               EditDiff(amount[1], data.checkingBalance),
                               "Adjustment", "checking"),
                amount[1]))

onConfirmEditSavings(amountInput) ==
    /\ CanConfirm("editSavings")
    /\ LET amount == parseAmount(amountInput) IN
       IF amount = Null THEN Reject(MsgBalance)
       ELSE Commit(EditSavings(
                addTransaction(data, nextId, <<"Balance correction">>,
                               EditDiff(amount[1], data.savingsBalance),
                               "Adjustment", "savings"),
                amount[1]))

\* a faulty clear: the answer to window.confirm is not looked at
onClearAllData_Unasked(confirmed) ==
    /\ Unlocked
    /\ modal = Some("settings")
    /\ data' = emptyData
    /\ dataItem' = SaveEffect(isInitialLoad, emptyData, StringifyData(emptyData))
    /\ modal' = Null
    /\ modalError' = Null
    /\ baseTx' = <<>>
    /\ baseId' = nextId
    /\ baseItem' = StringifyData(emptyData)
    /\ lastWriter' = focus
    /\ UNCHANGED <<user, error, isInitialLoad, transferDirection, sessionItem,
                   nextId, restored, outside>>

\* confirmed is the answer to window.confirm
onClearAllData(confirmed) ==
    /\ Unlocked
    /\ modal = Some("settings")
    /\ IF ~confirmed
       THEN UNCHANGED vars
       ELSE /\ data' = emptyData
            /\ dataItem' = SaveEffect(isInitialLoad, emptyData, StringifyData(emptyData))
            /\ modal' = Null
            /\ modalError' = Null
            /\ baseTx' = <<>>
            /\ baseId' = nextId
            /\ baseItem' = StringifyData(emptyData)
            /\ lastWriter' = focus
            /\ UNCHANGED <<user, error, isInitialLoad, transferDirection, sessionItem,
                           nextId, restored, outside>>

-----------------------------------------------------------------------------
(* The specification *)

Next ==
    \/ Mount
    \/ Reload
    \/ \E l \in LoginInputs : onLogin(l.username, l.password)
    \/ onLogout
    \/ \E type \in ModalTypes : openModal(type)
    \/ closeModal
    \/ \E dir \in {"checkingToSavings", "savingsToChecking"} : setTransferDirection(dir)
    \/ \E a \in AmountInputs : onConfirmTransfer(a)
    \/ \E a \in AmountInputs, d \in DescriptionInputs : onConfirmPayBills(a, d)
    \/ \E a \in AmountInputs : onConfirmAddMoney(a)
    \/ \E a \in AmountInputs : onConfirmSetGoal(a)
    \/ \E a \in AmountInputs : onConfirmEditChecking(a)
    \/ \E a \in AmountInputs : onConfirmEditSavings(a)
    \/ \E c \in BOOLEAN : onClearAllData(c)

Spec == Init /\ [][Next]_vars

-----------------------------------------------------------------------------
(* Properties *)

Front(d) == d.transactions[1]

\* the list of d is that of prev with exactly one new entry put at its front
OneNewAtFront(prev, d) ==
    /\ Len(d.transactions) >= 1
    /\ Tail(d.transactions) = Slice0(prev.transactions, HistoryCap - 1)
    /\ \A i \in 1..Len(prev.transactions) : prev.transactions[i].id # Front(d).id

\* the front entry of d reads so
FrontIs(d, description, amount, category, scope) ==
    /\ Front(d).description = description
    /\ Front(d).amount = amount
    /\ Front(d).category = category
    /\ Front(d).scope = scope

\* the amounts (in thousandths) the amount texts of the model stand for, by hand
ValidAmounts ==
    { [text |-> <<"1">>, value |-> 1000],
      [text |-> <<" ", "1", ",", "0", "0", "0", ".", "0", "0", "4">>, value |-> 1000000] }

InvalidAmountInputs == { <<>>, <<"a", "b", "c">>, <<"0">>, <<"-", "1">> }

\* what C1 asks of a step
C1_Step ==
    \A a \in ValidAmounts :
        /\ (/\ transferDirection = "checkingToSavings"
            /\ a.value <= data.checkingBalance
            /\ onConfirmTransfer(a.text))
           => /\ data'.checkingBalance = data.checkingBalance - a.value
              /\ data'.savingsBalance = data.savingsBalance + a.value
              /\ data'.savingsGoal = data.savingsGoal
              /\ OneNewAtFront(data, data')
              /\ FrontIs(data', <<"Transfer to Savings">>, -a.value, "Transfer", "both")
        /\ (/\ transferDirection = "savingsToChecking"
            /\ a.value <= data.savingsBalance
            /\ onConfirmTransfer(a.text))
           => /\ data'.savingsBalance = data.savingsBalance - a.value
              /\ data'.checkingBalance = data.checkingBalance + a.value
              /\ data'.savingsGoal = data.savingsGoal
              /\ OneNewAtFront(data, data')
              /\ FrontIs(data', <<"Transfer to Checking">>, a.value, "Transfer", "both")

\* C1: a confirmed transfer of a valid amount X not above the source balance debits
\* the source by X, credits the other account by X, leaves the goal alone and puts
\* exactly one new Transfer entry of scope both at the front: amount -X and
\* "Transfer to Savings" for checking->savings, +X and "Transfer to Checking" for
\* savings->checking.
C1_Transfer == [][C1_Step]_vars

\* a transfer to savings and then one back to checking have been confirmed
C1_Witness ==
    /\ Len(data.transactions) >= 2
    /\ data.transactions[1].description = <<"Transfer to Checking">>
    /\ data.transactions[2].description = <<"Transfer to Savings">>
    /\ data.transactions[2].id >= FirstId

\* the bill descriptions of the model and what trimming leaves of them, by hand
ValidDescriptions ==
    { [text |-> <<" ", "Electricity", " ">>, trimmed |-> <<"Electricity">>] }

EmptyDescriptions == { <<>>, <<" ">> }

\* what C2 as stated asks of a step
C2_Original_Step ==
    \A a \in ValidAmounts :
        /\ (/\ transferDirection = "checkingToSavings"
            /\ a.value > data.checkingBalance
            /\ onConfirmTransfer(a.text))
           => (data' = data /\ modalError' = Some(MsgChecking))
        /\ (/\ transferDirection = "savingsToChecking"
            /\ a.value > data.savingsBalance
            /\ onConfirmTransfer(a.text))
           => (data' = data /\ modalError' = Some(MsgSavings))
        /\ \A d \in DescriptionInputs :
               (a.value > data.checkingBalance /\ onConfirmPayBills(a.text, d))
               => (data' = data /\ modalError' = Some(MsgChecking))

\* C2 as stated: every debit operation whose amount is above the balance of the
\* account it debits leaves the ledger unchanged and reports insufficient funds.
C2_Original == [][C2_Original_Step]_vars

\* what C2 asks of a step
C2_Step ==
    \A a \in ValidAmounts :
        /\ (/\ transferDirection = "checkingToSavings"
            /\ a.value > data.checkingBalance
            /\ onConfirmTransfer(a.text))
           => (data' = data /\ dataItem' = dataItem /\ modalError' = Some(MsgChecking))
        /\ (/\ transferDirection = "savingsToChecking"
            /\ a.value > data.savingsBalance
            /\ onConfirmTransfer(a.text))
           => (data' = data /\ dataItem' = dataItem /\ modalError' = Some(MsgSavings))
        /\ \A d \in ValidDescriptions :
               (a.value > data.checkingBalance /\ onConfirmPayBills(a.text, d.text))
               => (data' = data /\ dataItem' = dataItem /\ modalError' = Some(MsgChecking))
        /\ \A d \in EmptyDescriptions :
               (a.value > data.checkingBalance /\ onConfirmPayBills(a.text, d))
               => (data' = data /\ dataItem' = dataItem /\ modalError' = Some(MsgBill))

\* C2 (amended): a transfer either way, or a bill payment with a non-empty
\* description, whose amount is above the balance of the account it debits leaves
\* both balances, the goal, the transaction list and the stored record unchanged
\* and reports insufficient funds for that account; a bill payment with an empty
\* description and such an amount changes nothing either, and reports the missing
\* description instead.
C2_InsufficientFunds == [][C2_Step]_vars

\* a bill payment has been refused for lack of funds, the ledger holding money
C2_Witness ==
    /\ modal = Some("payBills")
    /\ modalError = Some(MsgChecking)
    /\ data.checkingBalance > 0

\* the accepted operations since the first load or the last clear
Accepted == nextId - baseId

\* C3: the history never holds more than 25 entries; its length is
\* min(25, initial length + accepted operations); it is newest first; and it is the
\* new entries followed by the initial ones in their order, the oldest initial
\* entries being the ones that are gone once the cap is passed.
C3_HistoryCap ==
    /\ Len(data.transactions) <= HistoryCap
    /\ ~isInitialLoad =>
          /\ Len(data.transactions) = Min(HistoryCap, Len(baseTx) + Accepted)
          /\ \A i \in 1..Len(data.transactions) :
                IF i <= Accepted
                THEN data.transactions[i].id = nextId - i
                ELSE data.transactions[i] = baseTx[i - Accepted]
          /\ (baseTx # <<>> /\ Len(baseTx) + Accepted > HistoryCap)
                => \A i \in 1..Len(data.transactions) :
                       data.transactions[i].id # baseTx[Len(baseTx)].id

\* the cap has been passed: an initial entry has been dropped
C3_Witness ==
    /\ ~isInitialLoad
    /\ Len(baseTx) + Accepted > HistoryCap
    /\ Len(data.transactions) = HistoryCap
    /\ baseTx # <<>>

\* C4: an operation whose amount text is unparsable or not positive, or a bill
\* payment whose description is empty after trimming, is aborted with an inline
\* message: balances, goal, transaction list and stored record stay as they are
\* and the dialog stays open.
Aborted == data' = data /\ dataItem' = dataItem /\ modal' = modal /\ modalError' # Null

C4_Step ==
    /\ \A a \in InvalidAmountInputs :
          /\ onConfirmTransfer(a) => Aborted
          /\ onConfirmAddMoney(a) => Aborted
          /\ onConfirmSetGoal(a) => Aborted
          /\ onConfirmEditChecking(a) => Aborted
          /\ onConfirmEditSavings(a) => Aborted
          /\ \A d \in DescriptionInputs : onConfirmPayBills(a, d) => Aborted
    /\ \A a \in AmountInputs, d \in EmptyDescriptions : onConfirmPayBills(a, d) => Aborted

C4_ValidationFailure == [][C4_Step]_vars

\* an edit of the checking balance has been refused, the ledger holding money
C4_Witness ==
    /\ modal = Some("editChecking")
    /\ modalError = Some(MsgBalance)
    /\ data.checkingBalance > 0

\* what C5 asks of a step
C5_Step ==
    \A a \in ValidAmounts, d \in ValidDescriptions :
        (a.value <= data.checkingBalance /\ onConfirmPayBills(a.text, d.text))
        => /\ data'.checkingBalance = data.checkingBalance - a.value
           /\ data'.savingsBalance = data.savingsBalance
           /\ data'.savingsGoal = data.savingsGoal
           /\ OneNewAtFront(data, data')
           /\ FrontIs(data', <<"Bill Payment: ">> \o d.trimmed, -a.value, "Bills", "checking")

\* C5: a bill payment with a non-empty description d and a valid amount X not above
\* the checking balance takes X from checking, leaves savings and the goal alone and
\* puts at the front one entry "Bill Payment: d", -X, Bills, checking.
C5_PayBill == [][C5_Step]_vars

\* a bill has been paid
C5_Witness ==
    /\ data.transactions # <<>>
    /\ Front(data).category = "Bills"
    /\ Front(data).id >= FirstId

\* what C6 asks of a step
C6_Step ==
    \A a \in ValidAmounts :
        /\ onConfirmEditChecking(a.text)
           => /\ data'.checkingBalance = a.value
              /\ data'.savingsBalance = data.savingsBalance
              /\ data'.savingsGoal = data.savingsGoal
              /\ OneNewAtFront(data, data')
              /\ FrontIs(data', <<"Balance correction">>, a.value - data.checkingBalance,
                         "Adjustment", "checking")
        /\ onConfirmEditSavings(a.text)
           => /\ data'.savingsBalance = a.value
              /\ data'.checkingBalance = data.checkingBalance
              /\ data'.savingsGoal = data.savingsGoal
              /\ OneNewAtFront(data, data')
              /\ FrontIs(data', <<"Balance correction">>, a.value - data.savingsBalance,
                         "Adjustment", "savings")

\* C6: an edit of a balance with a valid amount A sets that balance to A, leaves
\* the other balance and the goal alone and puts at the front one entry
\* "Balance correction", Adjustment, whose amount is A minus the balance as it was
\* just before the edit.
C6_EditBalance == [][C6_Step]_vars

\* two edits of the checking balance have been confirmed one after the other, the
\* second one lowering the balance the first one set
C6_Witness ==
    /\ Len(data.transactions) >= 2
    /\ data.transactions[1].category = "Adjustment"
    /\ data.transactions[2].category = "Adjustment"
    /\ data.transactions[1].scope = "checking"
    /\ data.transactions[2].scope = "checking"
    /\ data.transactions[1].amount < 0

\* what C7 asks of a step
C7_Step ==
    \A a \in ValidAmounts :
        onConfirmAddMoney(a.text)
        => /\ data'.savingsBalance = data.savingsBalance + a.value
           /\ data'.checkingBalance = data.checkingBalance
           /\ data'.savingsGoal = data.savingsGoal
           /\ OneNewAtFront(data, data')
           /\ FrontIs(data', <<"Add Money to Savings">>, a.value, "Income", "savings")

\* C7: add money with a valid amount X adds X to savings, leaves checking and the
\* goal alone and puts at the front one entry "Add Money to Savings", +X, Income,
\* savings; no amount is refused for lack of funds.
C7_AddMoney == [][C7_Step]_vars

\* money has been added to an empty ledger
C7_Witness ==
    /\ Len(data.transactions) = 1
    /\ Front(data).category = "Income"
    /\ Front(data).id >= FirstId
    /\ data.checkingBalance = 0

\* what C8 asks of a step
C8_Step ==
    \A a \in ValidAmounts :
        onConfirmSetGoal(a.text)
        => /\ data'.savingsGoal = Some(a.value)
           /\ data'.checkingBalance = data.checkingBalance
           /\ data'.savingsBalance = data.savingsBalance
           /\ OneNewAtFront(data, data')
           /\ FrontIs(data', <<"Set savings goal">>, 0, "Goal", "savings")

\* C8: set savings goal with a valid amount G sets the goal to G, leaves both
\* balances alone and puts at the front one entry "Set savings goal", 0, Goal,
\* savings.
C8_SetGoal == [][C8_Step]_vars

\* a goal has been set on a ledger that holds money
C8_Witness ==
    /\ data.savingsGoal # Null
    /\ data.transactions # <<>>
    /\ Front(data).category = "Goal"
    /\ data.savingsBalance > 0

\* what trimming leaves of the usernames of the model, by hand
TrimmedUsername(u) ==
    IF u \in {<<>>, <<" ">>} THEN <<>>
    ELSE IF u \in {<<"Admin">>, <<" ", "Admin", " ">>} THEN <<"Admin">>
    ELSE u

\* what C9 as stated asks of a step
C9_Original_Step ==
    \A l \in LoginInputs :
        (/\ ~(l.username = <<"Admin">> /\ l.password = <<"admin123">>)
         /\ onLogin(l.username, l.password))
        => /\ user' = Null
           /\ sessionItem' = sessionItem
           /\ error' = Some(MsgInvalid)

\* C9 as stated: a sign-in with any pair other than Admin / admin123 fails, creates
\* no session and reports the one generic invalid-login message.
C9_Original == [][C9_Original_Step]_vars

\* what C9 asks of a step
C9_Step ==
    \A l \in LoginInputs :
        (/\ ~(TrimmedUsername(l.username) = <<"Admin">> /\ l.password = <<"admin123">>)
         /\ onLogin(l.username, l.password))
        => /\ user' = Null
           /\ sessionItem' = sessionItem
           /\ error' = IF TrimmedUsername(l.username) = <<>> \/ l.password = <<>>
                       THEN Some(MsgEnter) ELSE Some(MsgInvalid)

\* C9 (amended): a sign-in with a pair whose username, trimmed, is not Admin or
\* whose password is not admin123 fails and creates no session; it reports the
\* generic invalid-login message on a mismatch and the separate "Please enter
\* username and password." when the trimmed username or the password is empty;
\* neither message tells which field was wrong.
C9_LoginFails == [][C9_Step]_vars

\* a sign-in has been refused for a mismatch
C9_Witness ==
    /\ ~isInitialLoad
    /\ user = Null
    /\ error = Some(MsgInvalid)
    /\ sessionItem = Absent

AdminSession == StringifyUser(AdminUser)

\* what C10 asks of a step
C10_Step ==
    /\ onLogin(<<"Admin">>, <<"admin123">>)
       => (user' = Some(AdminUser) /\ sessionItem' = AdminSession /\ Unlocked')
    /\ (sessionItem = AdminSession /\ sessionItem' # AdminSession) => onLogout
    /\ (sessionItem = AdminSession /\ Mount) => (user' = Some(AdminUser) /\ Unlocked')

\* C10: a sign-in with Admin / admin123 succeeds, stores the session marker and
\* unlocks the dashboard; the marker is taken away by a logout only, and every load
\* of the page that finds it restores the user.
C10_LoginPersists ==
    /\ [][C10_Step]_vars
    /\ [](Unlocked => sessionItem = AdminSession)

\* the page has been loaded again after a sign-in (no page starts with a session
\* stored) and an operation, and the session effect has restored the user
C10_Witness ==
    /\ Unlocked
    /\ restored
    /\ sessionItem = AdminSession
    /\ nextId > FirstId

-----------------------------------------------------------------------------
(* Persistence *)

\* the item is the JSON text of an object whose four members read as d reads
Holds(item, d) ==
    /\ item.kind = "json"
    /\ item.value.checkingBalance.t = "number"
    /\ item.value.checkingBalance.n = d.checkingBalance
    /\ item.value.savingsBalance.t = "number"
    /\ item.value.savingsBalance.n = d.savingsBalance
    /\ IF d.savingsGoal = Null
       THEN item.value.savingsGoal.t = "null"
       ELSE /\ item.value.savingsGoal.t = "number"
            /\ item.value.savingsGoal.n = d.savingsGoal[1]
    /\ item.value.transactions.t = "array"
    /\ item.value.transactions.items = d.transactions

\* C11: with one tab, whenever the mount effects have run and no handler is
\* under way, the record under DATA_KEY is the whole ledger in memory: every
\* accepted operation has been written with the step that made it.
C11_Persisted == ~isInitialLoad => Holds(dataItem, data)

C11_Witness ==
    /\ ~isInitialLoad
    /\ nextId = FirstId + 2
    /\ data.savingsGoal # Null
    /\ Len(data.transactions) = HistoryCap
    /\ Holds(dataItem, data)

-----------------------------------------------------------------------------
(* Startup over any stored record *)

\* The records a page load can find under DATA_KEY: none, a text that is not
\* JSON, and the JSON values whose members are of the right type, of a wrong
\* type, or missing (a JSON value that is no object has no member at all).
LoadItems ==
    {Absent, Garbage} \cup
    { JsonText([checkingBalance |-> c, savingsBalance |-> v,
                savingsGoal |-> g, transactions |-> t]) :
        c \in {JNum(2000), JStr(<<"2">>), JUndefined},
        v \in {JNum(1000), JStr(<<"1">>), JUndefined},
        g \in {JNum(5000), JNull, JStr(<<"5">>), JUndefined},
        t \in {JArr(<<>>), JArr(OldLedger(2).transactions), JNull, JUndefined} }

InitLoad == InitOver(InitSessionItems, LoadItems)

NextLoad ==
    \/ Mount
    \/ Reload

SpecLoad == InitLoad /\ [][NextLoad]_vars

\* the record is there and is not a ledger: no JSON, a balance that is no
\* number, or transactions that are no list
Invalid(item) ==
    \/ item.kind = "text"
    \/ /\ item.kind = "json"
       /\ \/ item.value.checkingBalance.t # "number"
          \/ item.value.savingsBalance.t # "number"
          \/ item.value.transactions.t # "array"

\* what C12 asks of a step
C12_Step ==
    Mount =>
        IF dataItem.kind = "absent" THEN data' = emptyData
        ELSE IF Invalid(dataItem)
        THEN /\ data' = emptyData
             /\ dataItem' # dataItem
             /\ ~Invalid(dataItem')
        ELSE /\ data'.checkingBalance = dataItem.value.checkingBalance.n
             /\ data'.savingsBalance = dataItem.value.savingsBalance.n
             /\ data'.transactions = dataItem.value.transactions.items
             /\ data'.savingsGoal =
                    (IF dataItem.value.savingsGoal.t = "number"
                     THEN Some(dataItem.value.savingsGoal.n) ELSE Null)

\* C12: the mount effects, over whatever record the page load finds: with no
\* record, the ledger in memory is the empty one; with a record that is no
\* JSON or has not the shape of a ledger, the ledger is the empty one and the
\* record is no longer in storage when the effects are done; a record of the
\* right shape gives its balances and its list, and its goal when that is a
\* number, null otherwise.
C12_Startup == [][C12_Step]_vars

C12_Witness ==
    /\ ~isInitialLoad
    /\ baseItem = BadShape
    /\ data = emptyData
    /\ Holds(dataItem, emptyData)

-----------------------------------------------------------------------------
(* Clear all data *)

\* a clear has been confirmed and no operation has been accepted since
ClearedSince == baseItem = StringifyData(emptyData) /\ nextId = baseId

\* what C13 asks of a step
C13_Step ==
    /\ onClearAllData(TRUE) => data' = emptyData /\ Holds(dataItem', emptyData)
    /\ onClearAllData(FALSE) => data' = data /\ dataItem' = dataItem

\* C13: a confirmed clear leaves, in its own step, the empty ledger in memory
\* and the empty ledger's record in storage; a declined one leaves both as they
\* were.  With one tab, from the clear until the next accepted operation the
\* record stays the empty ledger's, through any reload, and a mounted page
\* shows the empty ledger.
C13_Clear ==
    /\ [][C13_Step]_vars
    /\ [](ClearedSince => /\ Holds(dataItem, emptyData)
                          /\ ~isInitialLoad => data = emptyData)

\* operations were accepted, the ledger was cleared, and the page is being loaded again
C13_Witness ==
    /\ ClearedSince
    /\ nextId > FirstId
    /\ isInitialLoad
    /\ Holds(dataItem, emptyData)

-----------------------------------------------------------------------------
(* Export, and the exported document put back *)

\* JSON.stringify(data, null, 2): the text of StringifyData(data) with line
\* breaks and indentation, the same JSON value.  The file holds, as history,
\* the ledger it was made of and whether it has been put back.
onExportData ==
    /\ Unlocked
    /\ modal = Some("settings")
    /\ download' = Some([name     |-> <<"mpb-data-">> \o todayISO \o <<".json">>,
                         document |-> StringifyData(data),
                         of       |-> data,
                         placed   |-> FALSE])
    /\ UNCHANGED <<tabState, sessionItem, dataItem, nextId, baseItem, lastWriter,
                   focus, otherTab, workerVars, parserVars>>

\* The user puts the text of the exported file under DATA_KEY while the page
\* is not loaded; the next load effect reads it.
PlaceDownload ==
    /\ isInitialLoad
    /\ download # Null
    /\ dataItem' = download[1].document
    /\ download' = Some([download[1] EXCEPT !.placed = TRUE])
    /\ lastWriter' = "none"
    /\ UNCHANGED <<tabState, sessionItem, nextId, baseItem, focus, otherTab,
                   workerVars, parserVars>>

NextExport ==
    \/ Mount
    \/ Reload
    \/ onLogin(<<"Admin">>, <<"admin123">>)
    \/ \E type \in {"addMoney", "setGoal", "settings"} : openModal(type)
    \/ closeModal
    \/ onConfirmAddMoney(<<"1">>)
    \/ \E a \in {<<"1">>, <<" ", "1", ",", "0", "0", "0", ".", "0", "0", "4">>} :
          onConfirmSetGoal(a)
    \/ onExportData
    \/ PlaceDownload

SpecExport == Init /\ [][NextExport]_vars

\* what C14 asks of a step
C14_Step ==
    /\ onExportData => /\ Holds(download'[1].document, data)
                       /\ ~Invalid(download'[1].document)
    /\ (Mount /\ download # Null /\ dataItem = download[1].document)
           => data' = download[1].of

\* C14: the exported document reads as the ledger in memory and has the shape
\* the load effect asks for; a page load that finds this document under
\* DATA_KEY gives the ledger that was exported: the same balances, the same
\* goal and the same transaction list.
C14_ExportLoad == [][C14_Step]_vars

\* a ledger with a goal was exported, another operation followed, and the page
\* loaded over the document put back shows the exported ledger again
C14_Witness ==
    /\ ~isInitialLoad
    /\ download # Null
    /\ download[1].placed
    /\ data = download[1].of
    /\ data.savingsGoal # Null
    /\ nextId = FirstId + 2
    /\ Front(data).id = FirstId

-----------------------------------------------------------------------------
(* Cents *)

\* x, in thousandths, is a whole number of cents
WholeCents(x) == x % 10 = 0

\* C15: in every state, before and after the startup load and after any
\* operations, the checking balance and the savings balance are each a whole
\* number of cents.
C15_WholeCents ==
    /\ WholeCents(data.checkingBalance)
    /\ WholeCents(data.savingsBalance)

\* " 1,000.004" was typed as the new checking balance, or added and moved over
C15_Witness ==
    /\ ~isInitialLoad
    /\ nextId > FirstId
    /\ data.checkingBalance = 1000000
    /\ WholeCents(data.savingsBalance)

-----------------------------------------------------------------------------
(* Two tabs *)

\* the state of the tab in focus
ThisTab ==
    [user |-> user, error |-> error, data |-> data, isInitialLoad |-> isInitialLoad,
     modal |-> modal, modalError |-> modalError, transferDirection |-> transferDirection,
     baseTx |-> baseTx, baseId |-> baseId, restored |-> restored]

\* The user turns to the other tab: its component comes into focus as it was
\* left.  Nothing runs in either tab (the component has no storage listener).
SwitchTab ==
    /\ user' = otherTab.user
    /\ error' = otherTab.error
    /\ data' = otherTab.data
    /\ isInitialLoad' = otherTab.isInitialLoad
    /\ modal' = otherTab.modal
    /\ modalError' = otherTab.modalError
    /\ transferDirection' = otherTab.transferDirection
    /\ baseTx' = otherTab.baseTx
    /\ baseId' = otherTab.baseId
    /\ restored' = otherTab.restored
    /\ otherTab' = ThisTab
    /\ focus' = (IF focus = "A" THEN "B" ELSE "A")
    /\ UNCHANGED <<sessionItem, dataItem, nextId, baseItem, lastWriter, download,
                   workerVars, parserVars>>

NextTabs ==
    \/ Mount
    \/ Reload
    \/ onLogin(<<"Admin">>, <<"admin123">>)
    \/ \E type \in {"transfer", "addMoney", "settings"} : openModal(type)
    \/ onConfirmTransfer(<<"1">>)
    \/ onConfirmAddMoney(<<"1">>)
    \/ onClearAllData(TRUE)
    \/ SwitchTab

SpecTabs == Init /\ [][NextTabs]_vars

\* the component state of tab t
Tab(t) == IF focus = t THEN ThisTab ELSE otherTab

\* C16: two tabs on the one DATA_KEY.  No step of one tab changes the ledger
\* the other tab holds in memory (a tab reads the record at its own startup
\* only), and whenever the tab that wrote the record last is still mounted, the
\* record is that tab's whole ledger, whatever the other tab had written
\* before.
C16_LastWriterWins ==
    /\ [][focus' = focus => otherTab' = otherTab]_vars
    /\ [](\A t \in {"A", "B"} :
            (lastWriter = t /\ ~Tab(t).isInitialLoad) => Holds(dataItem, Tab(t).data))

\* both tabs have loaded the same record; the other tab's deposit was written
\* first, then this tab's: the record is this tab's ledger, and the other
\* tab's entry, still in its memory, is in the record no more
C16_Witness ==
    /\ ~isInitialLoad
    /\ ~otherTab.isInitialLoad
    /\ lastWriter = focus
    /\ Holds(dataItem, data)
    /\ otherTab.data.transactions # <<>>
    /\ Front(otherTab.data).id = FirstId
    /\ data.transactions # <<>>
    /\ Front(data).id = FirstId + 1
    /\ \A i \in 1..Len(data.transactions) : data.transactions[i].id # FirstId

-----------------------------------------------------------------------------
(* The service worker (src/public/sw.js) *)

CACHE_NAME == "mypersonalbank-cache-v1"

APP_SHELL == {"/", "/index.html", "/manifest.webmanifest", "/Images/Logobank.png"}

\* the addresses asked for: the shell and a script of the build
Urls == APP_SHELL \cup {"/assets/index.js"}

\* what the server has served and serves
Contents == {"v0", "v1", "v2"}

Response(url, content, status) == [url |-> url, content |-> content, status |-> status]

Requests == [method : {"GET", "POST"}, url : Urls, mode : {"navigate", "no-cors"}]

\* fetch(request) is fulfilled with a response of some status, or rejected
NetOutcomes == {"200", "404", "failed"}

EmptyCache == [u \in Urls |-> Null]

\* caches.open(name): the cache is made if it is not there
Opened(cs, name) ==
    IF name \in DOMAIN cs THEN cs
    ELSE [k \in DOMAIN cs \cup {name} |-> IF k = name THEN EmptyCache ELSE cs[k]]

\* cache.put(request, response) on the cache called name
Put(cs, name, url, response) ==
    [Opened(cs, name) EXCEPT ![name][url] = Some(response)]

\* caches.match(request): the entry of some cache that has one, or undefined
Match(cs, url) ==
    IF \E k \in DOMAIN cs : cs[k][url] # Null
    THEN cs[CHOOSE k \in DOMAIN cs : cs[k][url] # Null][url]
    ELSE Null

\* a cache an earlier version of the worker has left
OldCaches ==
    [k \in {"mypersonalbank-cache-v0"} |->
        [u \in Urls |-> IF u \in APP_SHELL THEN Some(Response(u, "v0", "200")) ELSE Null]]

InitWorker ==
    /\ PageInit({Absent}, {Absent})
    /\ ParserInit
    /\ worker = "parsed"
    /\ caches \in {NoCaches, OldCaches}
    /\ pendingPuts = {}
    /\ answer = Null
    /\ server \in {"v1", "v2"}

\* install: cache.addAll(APP_SHELL) stores all of the shell or, when a request
\* of it fails, nothing; a failed install is tried again at a later visit.
install(ok) ==
    /\ worker = "parsed"
    /\ IF ok
       THEN /\ caches' = [Opened(caches, CACHE_NAME) EXCEPT ![CACHE_NAME] =
                             [u \in Urls |-> IF u \in APP_SHELL
                                             THEN Some(Response(u, server, "200"))
                                             ELSE @[u]]]
            /\ worker' = "installed"
       ELSE /\ caches' = Opened(caches, CACHE_NAME)
            /\ worker' = "parsed"
    /\ UNCHANGED <<pendingPuts, answer, server, pageVars, parserVars>>

\* activate: every cache but CACHE_NAME is deleted
activate ==
    /\ worker = "installed"
    /\ caches' = [k \in DOMAIN caches \cap {CACHE_NAME} |-> caches[k]]
    /\ worker' = "activated"
    /\ UNCHANGED <<pendingPuts, answer, server, pageVars, parserVars>>

\* a faulty handler: the network is asked first, the cache when it fails
Respond_NetworkFirst(cs, request, outcome, content) ==
    IF request.method # "GET"
    THEN [intercepted |-> FALSE, response |-> Null, fetched |-> FALSE, put |-> {}]
    ELSE IF outcome # "failed"
    THEN LET response == Response(request.url, content, outcome)
         IN  [intercepted |-> TRUE, response |-> Some(response), fetched |-> TRUE,
              put |-> {[url |-> request.url, response |-> response]}]
    ELSE [intercepted |-> TRUE, response |-> Match(cs, request.url), fetched |-> TRUE,
          put |-> {}]

\* The fetch listener (lines 22-45) for one request, the network giving
\* outcome and content: whether respondWith is called, what it is resolved
\* with (Null for undefined), whether fetch was called, and the cache.put
\* that is started.
Respond(cs, request, outcome, content) ==
    IF request.method # "GET"
    THEN [intercepted |-> FALSE, response |-> Null, fetched |-> FALSE, put |-> {}]
    ELSE LET cached == Match(cs, request.url) IN
         IF cached # Null
         THEN [intercepted |-> TRUE, response |-> cached, fetched |-> FALSE, put |-> {}]
         ELSE IF outcome # "failed"
         THEN LET response == Response(request.url, content, outcome)
              IN  [intercepted |-> TRUE, response |-> Some(response), fetched |-> TRUE,
                   put |-> {[url |-> request.url, response |-> response]}]
         ELSE [intercepted |-> TRUE,
               response |-> IF request.mode = "navigate" THEN Match(cs, "/") ELSE Null,
               fetched |-> TRUE, put |-> {}]

\* A fetch event.  The response is handed back when the listener's promise is
\* resolved; the cache.put of line 33 is not waited for and is carried out later.
onFetch(request, outcome) ==
    /\ worker = "activated"
    /\ LET r == Respond(caches, request, outcome, server)
       IN  /\ answer' = [request |-> request, intercepted |-> r.intercepted,
                         response |-> r.response, fetched |-> r.fetched]
           /\ pendingPuts' = pendingPuts \cup r.put
    /\ UNCHANGED <<worker, caches, server, pageVars, parserVars>>

\* a cache.put that was started is carried out
cachePut(p) ==
    /\ p \in pendingPuts
    /\ caches' = Put(caches, CACHE_NAME, p.url, p.response)
    /\ pendingPuts' = pendingPuts \ {p}
    /\ UNCHANGED <<worker, answer, server, pageVars, parserVars>>

\* the site is deployed anew: the network serves other content
deploy ==
    /\ server' \in {"v1", "v2"} \ {server}
    /\ UNCHANGED <<worker, caches, pendingPuts, answer, pageVars, parserVars>>

NextWorker ==
    \/ \E ok \in BOOLEAN : install(ok)
    \/ activate
    \/ \E request \in Requests, outcome \in NetOutcomes : onFetch(request, outcome)
    \/ \E p \in pendingPuts : cachePut(p)
    \/ deploy

SpecWorker == InitWorker /\ [][NextWorker]_vars

\* what C17 asks of a step
C17_Step ==
    /\ \A request \in Requests, outcome \in NetOutcomes :
          onFetch(request, outcome) =>
            LET entry == caches[CACHE_NAME][request.url] IN
            IF request.method # "GET"
            THEN /\ ~answer'.intercepted
                 /\ caches' = caches
                 /\ pendingPuts' = pendingPuts
            ELSE IF entry # Null
            THEN /\ answer'.response = entry
                 /\ ~answer'.fetched
                 /\ pendingPuts' = pendingPuts
            ELSE IF outcome # "failed"
            THEN /\ answer'.fetched
                 /\ answer'.response = Some(Response(request.url, server, outcome))
                 /\ [url |-> request.url, response |-> answer'.response[1]] \in pendingPuts'
            ELSE /\ answer'.fetched
                 /\ pendingPuts' = pendingPuts
                 /\ IF request.mode = "navigate"
                    THEN answer'.response = caches[CACHE_NAME]["/"] /\ answer'.response # Null
                    ELSE answer'.response = Null
    /\ \A p \in pendingPuts :
          cachePut(p) => caches'[CACHE_NAME][p.url] = Some(p.response)

\* C17: the fetch listener of the active worker.  A request that is not a
\* GET is not answered by the worker and leaves the cache and the started
\* puts as they are.  A GET with an entry in the cache is answered with that
\* entry and fetch is not called.  A GET without one is fetched: when fetch
\* is fulfilled the response is handed back and a put of its copy is started,
\* which stores it when it is carried out; when fetch is rejected a
\* navigation is answered with the cached entry for "/", which is there, and
\* any other request gets no response.
C17_CacheFirst == [][C17_Step]_vars

\* offline, a navigation to an address that is not cached was answered with
\* the root document of an earlier deployment
C17_Witness ==
    /\ answer # Null
    /\ answer.request.method = "GET"
    /\ answer.request.mode = "navigate"
    /\ answer.request.url = "/assets/index.js"
    /\ answer.fetched
    /\ answer.response # Null
    /\ answer.response[1].url = "/"
    /\ answer.response[1].content # server

-----------------------------------------------------------------------------
(* parseAmount by itself *)

\* the characters typed: digits, the point, the comma, a sign, a blank, a letter
AmountChars == {"0", "1", "5", ".", ",", "-", " ", "x"}

\* a key is pressed in the amount field
typeAmount(c) ==
    /\ Len(rawText) < MaxText
    /\ rawText' = Append(rawText, c)
    /\ result' = NotParsed
    /\ UNCHANGED <<pageVars, workerVars>>

\* parseAmount(amountInput)
callParseAmount ==
    /\ ~result.called
    /\ result' = [called |-> TRUE, value |-> parseAmount(rawText)]
    /\ UNCHANGED <<rawText, pageVars, workerVars>>

NextParse ==
    \/ \E c \in AmountChars : typeAmount(c)
    \/ callParseAmount

InitParse == InitOver({Absent}, {Absent})

SpecParse == InitParse /\ [][NextParse]_vars

\* s is a decimal numeral and nothing else: an optional sign, digits with at
\* most one point among them, and a digit at least
IsNumeral(s) ==
    LET body == IF s # <<>> /\ Head(s) \in {"+", "-"} THEN Tail(s) ELSE s
    IN  /\ \A i \in 1..Len(body) : IsDigit(body[i]) \/ body[i] = "."
        /\ Cardinality({i \in 1..Len(body) : body[i] = "."}) <= 1
        /\ \E i \in 1..Len(body) : IsDigit(body[i])

\* c cents is num / 10^k rounded to two decimals, a half going away from zero
\* (num >= 0)
IsRounded(c, num, k) ==
    /\ 2 * c * (10 ^ k) <= 200 * num + 10 ^ k
    /\ 200 * num + 10 ^ k < 2 * (c + 1) * (10 ^ k)

\* C18, as the claim states it: for every text, with the commas removed, the
\* text is rejected when it is no number or its value is not above zero, and
\* gives its value rounded to two decimals otherwise.
C18_Original ==
    result.called =>
        LET text == Trim(RemoveCommas(rawText))
            n    == parseFloat(text)
        IN  IF ~IsNumeral(text) \/ n.neg \/ n.num = 0
            THEN result.value = Null
            ELSE /\ result.value # Null
                 /\ WholeCents(result.value[1])
                 /\ IsRounded(result.value[1] \div 10, n.num, n.k)

-----------------------------------------------------------------------------
(* The history, entry by entry *)

\* what C19 asks of a step
C19_Step ==
    /\ (~isInitialLoad /\ ~isInitialLoad') =>
          IF nextId' = nextId
          THEN \/ data'.transactions = data.transactions
               \/ onClearAllData(TRUE) /\ data'.transactions = <<>>
          ELSE /\ nextId' = nextId + 1
               /\ Len(data'.transactions) = Min(Len(data.transactions) + 1, HistoryCap)
               /\ data'.transactions[1].id = nextId
               /\ \A i \in 2..Len(data'.transactions) :
                     data'.transactions[i] = data.transactions[i - 1]
    /\ (Mount /\ dataItem.kind = "json") =>
          data'.transactions = dataItem.value.transactions.items

\* C19: while the page is mounted, a step that accepts an operation puts
\* exactly one entry, with a new id, at index 0 and leaves every earlier entry
\* as it was, one place further down, the entry that had place 25 being the
\* only one to go; any other step, a rejected operation among them, leaves the
\* list as it is, but for a confirmed clear, which empties it.  A page load
\* gives the stored list as it stands.
C19_InsertionOrder == [][C19_Step]_vars

\* two entries were put in front of 24 earlier ones: the oldest is gone, the
\* others are in their places, unchanged
C19_Witness ==
    /\ ~isInitialLoad
    /\ Len(data.transactions) = HistoryCap
    /\ data.transactions[1].id = FirstId + 1
    /\ data.transactions[2].id = FirstId
    /\ \A i \in 3..HistoryCap : data.transactions[i] = OldTransaction(HistoryCap + 2 - i)

-----------------------------------------------------------------------------
(* Balances below zero *)

\* C20: from the empty ledger, and from a ledger an earlier session has left,
\* through accepted and rejected operations of every kind, neither the
\* checking balance nor the savings balance goes below zero.
C20_NonNegative ==
    /\ data.checkingBalance >= 0
    /\ data.savingsBalance >= 0

\* from the empty ledger, a deposit was accepted and a transfer of all of it:
\* savings are down to zero again
C20_Witness ==
    /\ ~isInitialLoad
    /\ baseItem = Absent
    /\ nextId = FirstId + 2
    /\ data.savingsBalance = 0
    /\ data.checkingBalance > 0
    /\ Front(data).description = <<"Transfer to Checking">>

-----------------------------------------------------------------------------
(* Amounts below half a cent *)

\* the amount texts typed: one unit, and four thousandths
SmallAmounts == { <<"1">>, <<"0", ".", "0", "0", "4">> }

NextAmounts ==
    \/ Mount
    \/ onLogin(<<"Admin">>, <<"admin123">>)
    \/ \E type \in ModalTypes : openModal(type)
    \/ closeModal
    \/ \E dir \in {"checkingToSavings", "savingsToChecking"} : setTransferDirection(dir)
    \/ \E a \in SmallAmounts : onConfirmTransfer(a)
    \/ \E a \in SmallAmounts : onConfirmPayBills(a, <<"Electricity">>)
    \/ \E a \in SmallAmounts : onConfirmAddMoney(a)
    \/ \E a \in SmallAmounts : onConfirmSetGoal(a)
    \/ \E a \in SmallAmounts : onConfirmEditChecking(a)
    \/ \E a \in SmallAmounts : onConfirmEditSavings(a)

SpecAmounts == Init /\ [][NextAmounts]_vars

\* what C21 asks of a step
C21_Step ==
    \A a \in SmallAmounts :
        /\ (onConfirmTransfer(a) /\ nextId' # nextId) =>
              /\ data'.checkingBalance # data.checkingBalance
              /\ data'.savingsBalance # data.savingsBalance
        /\ (onConfirmPayBills(a, <<"Electricity">>) /\ nextId' # nextId) =>
              data'.checkingBalance < data.checkingBalance
        /\ (onConfirmAddMoney(a) /\ nextId' # nextId) =>
              data'.savingsBalance > data.savingsBalance
        /\ (onConfirmSetGoal(a) /\ nextId' # nextId) =>
              data'.savingsGoal # Null /\ data'.savingsGoal[1] > 0
        /\ (onConfirmEditChecking(a) /\ nextId' # nextId) =>
              data'.checkingBalance > 0
        /\ (onConfirmEditSavings(a) /\ nextId' # nextId) =>
              data'.savingsBalance > 0

\* C21, as the claim states it: an operation that is accepted moves, stores
\* or sets an amount above zero: an accepted transfer, bill payment or deposit
\* changes the balances it touches, an accepted goal is above 0.00 and an
\* accepted balance edit leaves the balance above 0.00.
C21_Original == [][C21_Step]_vars

-----------------------------------------------------------------------------
(* Logout *)

\* the ledger in memory and its record stay as they are
LedgerKept == data' = data /\ dataItem' = dataItem /\ nextId' = nextId

\* what C22 asks of a step
C22_Step ==
    /\ onLogout => /\ sessionItem' = Absent
                   /\ user' = Null
                   /\ ~Unlocked'
                   /\ LedgerKept
                   /\ UNCHANGED <<error, isInitialLoad, modal, modalError, transferDirection>>
    /\ \A l \in LoginInputs : onLogin(l.username, l.password) => LedgerKept
    \* with no session stored, a mounted page keeps its ledger
    /\ (sessionItem # AdminSession /\ ~isInitialLoad /\ ~isInitialLoad') => LedgerKept
    \* with no session stored, a page load leaves the user signed out
    /\ (sessionItem # AdminSession /\ Mount) => user' = Null
    \* a user who is signed out is signed in by the session effect or by the pair
    /\ (user = Null /\ user' # Null) =>
          \/ Mount /\ sessionItem = AdminSession
          \/ \E l \in LoginInputs :
                /\ TrimmedUsername(l.username) = <<"Admin">>
                /\ l.password = <<"admin123">>
                /\ onLogin(l.username, l.password)

\* C22: a logout takes the session marker out of storage and locks the page,
\* and leaves the ledger in memory, its record and the rest of the component
\* state as they are; a sign-in leaves the ledger and its record as they are
\* too.  With no session stored, a page load leaves the user signed out, only
\* a sign-in with Admin / admin123 unlocks the page, and until then no step
\* changes the ledger or its record.
C22_Logout == [][C22_Step]_vars

\* operations were accepted, the user logged out, and the page is being loaded
\* again: no session is stored and the record holds the operations
C22_Witness ==
    /\ isInitialLoad
    /\ sessionItem = Absent
    /\ nextId > FirstId
    /\ dataItem.kind = "json"
    /\ dataItem.value.transactions.items # <<>>
    /\ dataItem.value.transactions.items[1].id = nextId - 1

=============================================================================
